---- MODULE Spec2Model ----
(***************************************************************************)
(* Model of rasa/nlu/utils/spacy_utils.py (class SpacyNLP).                 *)
(*                                                                         *)
(* Two specifications share the module:                                    *)
(*   SpecTrain      a constructed component trains on a batch of messages  *)
(*                  (train, _docs_for_training_examples and its helpers);  *)
(*   SpecLifecycle  the host creates, persists, reloads and caches the     *)
(*                  component (create, load, cache_key, _load_model,       *)
(*                  _ensure_proper_language_model).                        *)
(***************************************************************************)
EXTENDS Integers, Sequences, FiniteSets, TLC

VARIABLES
    self,               \* the SpacyNLP instance that trains
    training_examples,  \* training_data.training_examples: a list of Message
    examples_before,    \* history: training_examples as they were before train
    attribute_docs,     \* the value _docs_for_training_examples returned
    steps,              \* per attribute: the intermediate lists of that call
    train_error,        \* the exception train raised, "none" if it returned
    pc,                 \* "ready" before train, "trained" after it
    component_cache,    \* the host's component cache: cache key -> component
    persisted,          \* the component configurations the host has persisted
    call,               \* the last create / load / cache_key call and its outcome
    n_calls             \* the number of calls made so far

trainVars == <<self, training_examples, examples_before, attribute_docs, steps,
               train_error, pc>>
lifeVars == <<component_cache, persisted, call, n_calls>>
vars == <<self, training_examples, examples_before, attribute_docs, steps,
          train_error, pc, component_cache, persisted, call, n_calls>>

(***************************************************************************)
(* Bounds.                                                                 *)
(***************************************************************************)
MaxExamples == 3
MaxCalls == 3

(***************************************************************************)
(* Python values.  A text is a string (a sequence of characters), a Doc is *)
(* the sequence of tokens spaCy made of a text, None is the absent value.  *)
(* len() of a string or of a Doc is the length of that sequence.           *)
(***************************************************************************)
None == [tag |-> "none", chars |-> <<>>]
Str(s) == [tag |-> "str", chars |-> s]
Doc(s) == [tag |-> "doc", chars |-> s]
EmptyStr == Str(<<>>)
PyLen(v) == Len(v.chars)

\* str.lower() on one character.
LowerChar(c) == IF c = "A" THEN "a" ELSE c
\* str.lower()
lower(s) == [i \in 1..Len(s) |-> LowerChar(s[i])]

DENSE_FEATURIZABLE_ATTRIBUTES == <<"text", "response">>
SPACY_DOCS == [text |-> "text_spacy_doc", response |-> "response_spacy_doc"]
Attributes == {DENSE_FEATURIZABLE_ATTRIBUTES[i] : i \in 1..Len(DENSE_FEATURIZABLE_ATTRIBUTES)}
MessageKeys == Attributes \cup {SPACY_DOCS[a] : a \in Attributes}

\* Message.get(key): the value stored under key, None when there is none.
Message_get(message, key) == message[key]
\* Message.set(key, value)
Message_set(message, key, value) == [message EXCEPT ![key] = value]

(***************************************************************************)
(* The external model.  nlp(text) and nlp.pipe(texts) make one Doc per     *)
(* text; a Doc of a non-empty text has at least one token.  A handle that  *)
(* breaks the contract of pipe returns too few, too many or reordered Docs.*)
(***************************************************************************)
PipeBehaviours == {"exact", "short", "nothing", "long", "reversed"}
nlp_call(text) == Doc(text.chars)
Reverse(s) == [i \in 1..Len(s) |-> s[Len(s) + 1 - i]]
nlp_pipe(nlp, texts) ==
    LET docs == [i \in 1..Len(texts) |-> nlp_call(texts[i])]
    IN  CASE nlp.pipe_behaviour = "exact" -> docs
          [] nlp.pipe_behaviour = "short" ->
                IF docs = <<>> THEN docs ELSE SubSeq(docs, 1, Len(docs) - 1)
          [] nlp.pipe_behaviour = "nothing" -> <<>>
          [] nlp.pipe_behaviour = "long" -> Append(docs, Doc(<<"z">>))
          [] nlp.pipe_behaviour = "reversed" -> Reverse(docs)
\* Doc(self.nlp.vocab): a Doc without tokens.
EmptyDoc == Doc(<<>>)

(***************************************************************************)
(* _preprocess_text, _get_text                                             *)
(***************************************************************************)
_preprocess_text(slf, text) ==
    LET t == IF text = None THEN EmptyStr ELSE text
    IN  IF slf.component_config.case_sensitive THEN t ELSE Str(lower(t.chars))

_get_text(slf, example, attribute) ==
    _preprocess_text(slf, Message_get(example, attribute))

(***************************************************************************)
(* Lists of (index, value) tuples; indices are Python's, from 0.           *)
(***************************************************************************)
enumerate(s) == [i \in 1..Len(s) |-> <<i - 1, s[i]>>]

\* zip(a, b) stops at the end of the shorter list.
Min(a, b) == IF a <= b THEN a ELSE b
zip(a, b) == [i \in 1..Min(Len(a), Len(b)) |-> <<a[i], b[i]>>]

IsContent(training_sample) == training_sample[2] # EmptyStr
IsEmpty(training_sample) == training_sample[2] = EmptyStr

_filter_training_samples_by_content(indexed_training_samples) ==
    [docs_to_pipe |-> SelectSeq(indexed_training_samples, IsContent),
     empty_docs |-> SelectSeq(indexed_training_samples, IsEmpty)]

\* The variant that pairs every submitted sample, with an empty Doc where
\* pipe returned none (zip_longest instead of zip).
_process_content_bearing_samples_padded(slf, samples_to_pipe) ==
    LET txts == [i \in 1..Len(samples_to_pipe) |-> samples_to_pipe[i][2]]
        piped == nlp_pipe(slf.nlp, txts)
    IN  [i \in 1..Len(samples_to_pipe) |->
            <<samples_to_pipe[i][1], IF i <= Len(piped) THEN piped[i] ELSE EmptyDoc>>]

_process_content_bearing_samples(slf, samples_to_pipe) ==
    LET txts == [i \in 1..Len(samples_to_pipe) |-> samples_to_pipe[i][2]]
        piped == nlp_pipe(slf.nlp, txts)
        pairs == zip(samples_to_pipe, piped)
    IN  [i \in 1..Len(pairs) |-> <<pairs[i][1][1], pairs[i][2]>>]

_process_non_content_bearing_samples(slf, empty_samples) ==
    LET pairs == zip(empty_samples, [i \in 1..Len(empty_samples) |-> EmptyDoc])
    IN  [i \in 1..Len(pairs) |-> <<pairs[i][1][1], pairs[i][2]>>]

\* dict(pairs): key -> the value of the last pair with that key.
DictKeys(pairs) == {pairs[i][1] : i \in 1..Len(pairs)}
DictGet(pairs, k) ==
    LET last == CHOOSE i \in 1..Len(pairs) :
                    /\ pairs[i][1] = k
                    /\ \A j \in (i + 1)..Len(pairs) : pairs[j][1] # k
    IN  pairs[last][2]

\* sorted(keys): ascending.
RECURSIVE SortedSeq(_)
SortedSeq(S) ==
    IF S = {} THEN <<>>
    ELSE LET m == CHOOSE x \in S : \A y \in S : x <= y
         IN  <<m>> \o SortedSeq(S \ {m})

\* The variant that concatenates the processed lists instead of merging them.
_merge_content_lists_concat(indexed_training_samples, doc_lists) ==
    doc_lists

\* The variant that merges the processed lists alone, without the indexed samples.
_merge_content_lists_docs_only(indexed_training_samples, doc_lists) ==
    LET keys == SortedSeq(DictKeys(doc_lists))
    IN  [i \in 1..Len(keys) |-> <<keys[i], DictGet(doc_lists, keys[i])>>]

_merge_content_lists(indexed_training_samples, doc_lists) ==
    LET updated == indexed_training_samples \o doc_lists
        keys == SortedSeq(DictKeys(updated))
    IN  [i \in 1..Len(keys) |-> <<keys[i], DictGet(updated, keys[i])>>]

(***************************************************************************)
(* _docs_for_training_examples: for one attribute, every intermediate list *)
(* of the loop body; for the call, the list of Docs per attribute.         *)
(***************************************************************************)
docs_for_attribute(slf, examples, attribute) ==
    LET texts == [i \in 1..Len(examples) |-> _get_text(slf, examples[i], attribute)]
        indexed_training_samples == enumerate(texts)
        filtered == _filter_training_samples_by_content(indexed_training_samples)
        samples_to_pipe == filtered.docs_to_pipe
        empty_samples == filtered.empty_docs
        content_bearing_docs == _process_content_bearing_samples(slf, samples_to_pipe)
        non_content_bearing_docs ==
            _process_non_content_bearing_samples(slf, empty_samples)
        attribute_document_list ==
            _merge_content_lists(indexed_training_samples,
                                 content_bearing_docs \o non_content_bearing_docs)
    IN  [texts |-> texts,
         samples_to_pipe |-> samples_to_pipe,
         empty_samples |-> empty_samples,
         piped |-> nlp_pipe(slf.nlp,
                            [i \in 1..Len(samples_to_pipe) |-> samples_to_pipe[i][2]]),
         content_bearing_docs |-> content_bearing_docs,
         attribute_document_list |-> attribute_document_list,
         docs |-> [i \in 1..Len(attribute_document_list) |->
                        attribute_document_list[i][2]]]

_docs_for_training_examples(slf, examples) ==
    [attribute \in Attributes |-> docs_for_attribute(slf, examples, attribute).docs]

(***************************************************************************)
(* train: the body of the inner loop, then the two loops.  A lookup past   *)
(* the end of a list raises IndexError and leaves the examples as they are *)
(* at that point.                                                          *)
(***************************************************************************)
\* The variant that attaches whatever the list holds.
train_example_always(example, attribute, example_attribute_doc) ==
    Message_set(example, SPACY_DOCS[attribute], example_attribute_doc)

train_example(example, attribute, example_attribute_doc) ==
    IF PyLen(example_attribute_doc) # 0
    THEN Message_set(example, SPACY_DOCS[attribute], example_attribute_doc)
    ELSE example

RECURSIVE train_loop(_, _, _, _)
train_loop(examples, docs, a, idx) ==
    IF a > Len(DENSE_FEATURIZABLE_ATTRIBUTES)
    THEN [examples |-> examples, error |-> "none"]
    ELSE LET attribute == DENSE_FEATURIZABLE_ATTRIBUTES[a]
         IN  IF idx >= Len(examples)
             THEN train_loop(examples, docs, a + 1, 0)
             ELSE IF idx >= Len(docs[attribute])
             THEN [examples |-> examples, error |-> "IndexError"]
             ELSE train_loop(
                    [examples EXCEPT ![idx + 1] =
                        train_example(examples[idx + 1], attribute,
                                      docs[attribute][idx + 1])],
                    docs, a, idx + 1)

train(slf, examples) ==
    train_loop(examples, _docs_for_training_examples(slf, examples), 1, 0)

(***************************************************************************)
(* Dictionaries (component_config, meta) are functions from their keys;    *)
(* an absent key is outside the domain.  Names are strings.                *)
(***************************************************************************)
\* dict.get(key, default)
dict_get(d, key, default) == IF key \in DOMAIN d THEN d[key] ELSE default
\* Python's truth value of a name: None and "" are false.
Truthy(v) == v # None /\ v.chars # <<>>

\* SpacyNLP.defaults
defaults == [model |-> None, case_sensitive |-> FALSE]

\* rasa.utils.train_utils.override_defaults: a copy of the defaults with the
\* keys of custom laid over it.
override_defaults(dflts, custom) ==
    [k \in DOMAIN dflts \cup DOMAIN custom |->
        IF k \in DOMAIN custom THEN custom[k] ELSE dflts[k]]

\* cls.name
ComponentName == <<"SpacyNLP">>

(***************************************************************************)
(* Exceptions: a kind and the message, as the list of its parts.           *)
(***************************************************************************)
NoError == [kind |-> "none", message |-> <<>>]
Error(kind, message) == [kind |-> kind, message |-> message]
DownloadCommand == "python -m spacy download en_core_web_md"
LinkCommand == "python -m spacy link en_core_web_md en"
HasRemediation(error) ==
    /\ \E i \in 1..Len(error.message) : error.message[i] = DownloadCommand
    /\ \E i \in 1..Len(error.message) : error.message[i] = LinkCommand

\* typing.TYPE_CHECKING is False when the module runs, so the names imported
\* under it are not bound in the module.
TYPE_CHECKING == FALSE
ModuleNames ==
    {"logging", "typing", "Component", "TrainingData", "RasaNLUModelConfig",
     "Message", "SPACY_DOCS", "DENSE_FEATURIZABLE_ATTRIBUTES", "Domain", "logger"}
    \cup (IF TYPE_CHECKING
          THEN {"Language", "Doc", "Metadata", "InvalidModelError"}
          ELSE {})

(***************************************************************************)
(* spacy.load(name): raises OSError, or returns a handle.  The code also   *)
(* provides for None and for a handle that was not loaded from disk.       *)
(***************************************************************************)
LoaderOutcomes == {"OSError", "None", "stub", "loaded"}
spacy_load(name, outcome) ==
    CASE outcome = "None" -> None
      [] outcome = "stub" ->
            [name |-> name, path |-> None, pipe_behaviour |-> "exact"]
      [] outcome = "loaded" ->
            [name |-> name, path |-> Str(<<"/models/">> \o name.chars),
             pipe_behaviour |-> "exact"]

_load_model(spacy_model_name, outcome) ==
    IF outcome # "OSError"
    THEN [value |-> spacy_load(spacy_model_name, outcome), error |-> NoError]
    ELSE IF "InvalidModelError" \in ModuleNames
    THEN [value |-> None,
          error |-> Error("InvalidModelError",
                          <<"Model '">> \o spacy_model_name.chars
                          \o <<"' is not a linked spaCy model.  ",
                               "Please download and/or link a spaCy model, ",
                               "e.g. by running:", DownloadCommand, LinkCommand>>)]
    ELSE [value |-> None,
          error |-> Error("NameError",
                          <<"name 'InvalidModelError' is not defined">>)]

\* The variant that accepts a handle whose path is unset.
_ensure_proper_language_model_no_path(nlp) ==
    IF nlp = None
    THEN Error("Exception", <<"Failed to load spacy language model. ",
                              "Loading the model returned 'None'.">>)
    ELSE NoError

_ensure_proper_language_model(nlp) ==
    IF nlp = None
    THEN Error("Exception", <<"Failed to load spacy language model. ",
                              "Loading the model returned 'None'.">>)
    ELSE IF nlp.path = None
    THEN Error("Exception", <<"Failed to load spacy language model for lang '{}'. ",
                              "Make sure you have downloaded the correct model ",
                              "(https://spacy.io/docs/usage/).">>)
    ELSE NoError

\* cls(component_config, nlp)
SpacyNLP(component_config, nlp) ==
    [component_config |-> component_config, nlp |-> nlp]

\* What a call did: the value returned (None when it raised), the exception,
\* the names handed to spacy.load and the handles handed to validation.
Outcome(result, error, loads, validated) ==
    [result |-> result, error |-> error, spacy_load_calls |-> loads,
     validated |-> validated]

\* load a model by name, validate it, build the component
load_validate_build(component_config, spacy_model_name, outcome) ==
    LET loaded == _load_model(spacy_model_name, outcome)
    IN  IF loaded.error # NoError
        THEN Outcome(None, loaded.error, <<spacy_model_name>>, <<>>)
        ELSE LET invalid == _ensure_proper_language_model(loaded.value)
             IN  IF invalid # NoError
                 THEN Outcome(None, invalid, <<spacy_model_name>>, <<loaded.value>>)
                 ELSE Outcome(SpacyNLP(component_config, loaded.value), NoError,
                              <<spacy_model_name>>, <<loaded.value>>)

\* The variant that always loads the model named after the language.
create_language_only(component_config, language, outcome) ==
    LET config == override_defaults(defaults, component_config)
    IN  load_validate_build([config EXCEPT !["model"] = language], language, outcome)

\* The variant that falls back to the language's model when the load fails.
create_with_fallback(component_config, language, outcome) ==
    LET config == override_defaults(defaults, component_config)
        named == Truthy(dict_get(config, "model", None))
        spacy_model_name == IF named THEN config["model"] ELSE language
        first == load_validate_build([config EXCEPT !["model"] = spacy_model_name],
                                     spacy_model_name, outcome)
        second == load_validate_build([config EXCEPT !["model"] = language],
                                      language, "loaded")
    IN  IF first.error = NoError THEN first
        ELSE Outcome(second.result, second.error,
                     first.spacy_load_calls \o second.spacy_load_calls,
                     first.validated \o second.validated)

create(component_config, language, outcome) ==
    LET config == override_defaults(defaults, component_config)
        named == Truthy(dict_get(config, "model", None))
        spacy_model_name == IF named THEN config["model"] ELSE language
        resolved == IF named THEN config ELSE [config EXCEPT !["model"] = language]
    IN  load_validate_build(resolved, spacy_model_name, outcome)

cache_key(component_meta, language) ==
    LET spacy_model_name == dict_get(component_meta, "model", language)
    IN  IF spacy_model_name = None
        THEN Outcome(None,
                     Error("TypeError",
                           <<"can only concatenate str (not \"NoneType\") to str">>),
                     <<>>, <<>>)
        ELSE Outcome(Str(ComponentName \o <<"-">> \o spacy_model_name.chars),
                     NoError, <<>>, <<>>)

\* The variant that loads the model again although a component is cached.
load_ignoring_cache(meta, cached_component, outcome) ==
    load_validate_build(meta, dict_get(meta, "model", None), outcome)

load(meta, cached_component, outcome) ==
    IF cached_component # None
    THEN Outcome(cached_component, NoError, <<>>, <<>>)
    ELSE load_validate_build(meta, dict_get(meta, "model", None), outcome)

(***************************************************************************)
(* The host: it creates components from pipeline configurations, persists  *)
(* the configuration of each component it created, loads components from   *)
(* persisted configurations and keeps the loaded ones in a cache under     *)
(* their cache key.                                                        *)
(***************************************************************************)
ModelNames == {None, Str(<<>>), Str(<<"en_core_web_md">>)}
Languages == {Str(<<"en">>), Str(<<"de">>)}
ComponentConfigs ==
    {<<>>}
    \cup {[model |-> m] : m \in ModelNames}
    \cup {[case_sensitive |-> TRUE]}
    \cup {[model |-> m, case_sensitive |-> TRUE] : m \in ModelNames}

cached_under(cache, key) == IF key \in DOMAIN cache THEN cache[key] ELSE None
add_to_cache(cache, key, component) ==
    [k \in DOMAIN cache \cup {key} |-> IF k = key THEN component ELSE cache[k]]

\* No method has been called yet.
NoCall == [op |-> "none"]

InitLifecycle ==
    /\ self = None
    /\ training_examples = <<>>
    /\ examples_before = <<>>
    /\ attribute_docs = [a \in Attributes |-> <<>>]
    /\ steps = [a \in Attributes |-> <<>>]
    /\ train_error = "none"
    /\ pc = "ready"
    /\ component_cache = <<>>
    /\ persisted = {}
    /\ call = NoCall
    /\ n_calls = 0

Create ==
    /\ n_calls < MaxCalls
    /\ \E component_config \in ComponentConfigs, language \in Languages,
          outcome \in LoaderOutcomes :
          LET r == create(component_config, language, outcome)
          IN  /\ call' = [op |-> "create", config |-> component_config,
                          language |-> language, cached_component |-> None,
                          given |-> component_config,
                          outcome |-> outcome, did |-> r]
              /\ IF r.error = NoError
                 THEN persisted' = persisted \cup
                          {[meta |-> r.result.component_config,
                            language |-> language, given |-> component_config]}
                 ELSE persisted' = persisted
    /\ n_calls' = n_calls + 1
    /\ UNCHANGED component_cache
    /\ UNCHANGED trainVars

Load ==
    /\ n_calls < MaxCalls
    /\ \E p \in persisted, use_cache \in BOOLEAN, outcome \in LoaderOutcomes :
          LET key == cache_key(p.meta, p.language).result
              cached == IF use_cache THEN cached_under(component_cache, key) ELSE None
              r == load(p.meta, cached, outcome)
          IN  /\ call' = [op |-> "load", config |-> p.meta,
                          language |-> p.language, cached_component |-> cached,
                          given |-> p.given,
                          outcome |-> outcome, did |-> r]
              /\ IF r.error = NoError
                 THEN component_cache' = add_to_cache(component_cache, key, r.result)
                 ELSE component_cache' = component_cache
    /\ n_calls' = n_calls + 1
    /\ UNCHANGED persisted
    /\ UNCHANGED trainVars

CacheKey ==
    /\ n_calls < MaxCalls
    /\ \E component_meta \in ComponentConfigs, language \in Languages :
          call' = [op |-> "cache_key", config |-> component_meta,
                   language |-> language, cached_component |-> None,
                   given |-> component_meta,
                   outcome |-> "none", did |-> cache_key(component_meta, language)]
    /\ n_calls' = n_calls + 1
    /\ UNCHANGED <<component_cache, persisted>>
    /\ UNCHANGED trainVars

NextLifecycle == Create \/ Load \/ CacheKey

SpecLifecycle == InitLifecycle /\ [][NextLifecycle]_vars

(***************************************************************************)
(* The training run: the host hands a constructed component a batch of     *)
(* messages.  A message may carry Docs of an earlier run.                  *)
(***************************************************************************)
\* The texts a message may carry: absent, empty, mixed case, lower case.  The
\* response of a message is absent or given.
TextValues(a) ==
    IF a = "text" THEN {None, EmptyStr, Str(<<"A">>), Str(<<"b">>)}
    ELSE {None, Str(<<"b">>)}
StaleDoc == Doc(<<"o">>)
Messages(prior) ==
    {[k \in MessageKeys |-> IF k \in Attributes THEN t[k] ELSE prior] :
        t \in {f \in [Attributes -> UNION {TextValues(a) : a \in Attributes}] :
                  \A a \in Attributes : f[a] \in TextValues(a)}}
Batches(prior) ==
    UNION {[1..n -> Messages(prior)] : n \in 0..MaxExamples}

InitTrain ==
    /\ \E cs \in BOOLEAN, b \in PipeBehaviours :
          self = SpacyNLP([model |-> Str(<<"en">>), case_sensitive |-> cs],
                          [spacy_load(Str(<<"en">>), "loaded") EXCEPT
                              !.pipe_behaviour = b])
    /\ \E prior \in {None, StaleDoc} : training_examples \in Batches(prior)
    /\ examples_before = training_examples
    /\ attribute_docs = [a \in Attributes |-> <<>>]
    /\ steps = [a \in Attributes |-> docs_for_attribute(self, <<>>, a)]
    /\ train_error = "none"
    /\ pc = "ready"
    /\ component_cache = <<>>
    /\ persisted = {}
    /\ call = NoCall
    /\ n_calls = 0

Train ==
    /\ pc = "ready"
    /\ LET r == train(self, training_examples)
       IN  /\ training_examples' = r.examples
           /\ train_error' = r.error
    /\ attribute_docs' = _docs_for_training_examples(self, training_examples)
    /\ steps' = [a \in Attributes |-> docs_for_attribute(self, training_examples, a)]
    /\ pc' = "trained"
    /\ UNCHANGED <<self, examples_before>>
    /\ UNCHANGED lifeVars

NextTrain == Train

SpecTrain == InitTrain /\ [][NextTrain]_vars

(***************************************************************************)
(* Properties of the training run (SpecTrain).                             *)
(***************************************************************************)
NumExamples == Len(examples_before)
ExampleIndices == 1..NumExamples

\* nlp.pipe returned one Doc per submitted text, in the order submitted.
PipeContractHeld(a) ==
    steps[a].piped =
        [i \in 1..Len(steps[a].samples_to_pipe) |->
            nlp_call(steps[a].samples_to_pipe[i][2])]

\* What sample e's entry for attribute a has to be.
ExpectedDoc(e, a) ==
    LET t == _get_text(self, e, a)
    IN  IF t = EmptyStr THEN EmptyDoc ELSE nlp_call(t)

\* C1: when nlp.pipe returns one Doc per submitted text in the same order,
\* entry i of each per-attribute list of _docs_for_training_examples belongs
\* to sample i: the Doc of its preprocessed text when that text is non-empty,
\* the empty Doc when it is empty.
C1_DocsFollowInputOrder ==
    pc = "trained" =>
        \A a \in Attributes :
            PipeContractHeld(a) =>
                /\ Len(attribute_docs[a]) = NumExamples
                /\ \A i \in ExampleIndices :
                      attribute_docs[a][i] = ExpectedDoc(examples_before[i], a)

\* A mixed batch whose empty text comes before a non-empty one, the pipe
\* contract kept.
C1_Witness ==
    /\ pc = "trained"
    /\ NumExamples = 3
    /\ PipeContractHeld("text")
    /\ examples_before[1]["text"] = None
    /\ examples_before[2]["text"] = Str(<<"A">>)
    /\ examples_before[3]["text"] = EmptyStr
    /\ ~self.component_config.case_sensitive
    /\ attribute_docs["text"] = <<EmptyDoc, Doc(<<"a">>), EmptyDoc>>

\* C2: train leaves the Doc attribute of a sample whose text is absent or
\* empty exactly as it was, never attaches the empty Doc, and attaches every
\* non-empty entry of the per-attribute list under SPACY_DOCS[attribute].
C2_EmptyNeverAttached ==
    pc = "trained" =>
        \A a \in Attributes : \A i \in ExampleIndices :
            /\ examples_before[i][a] \in {None, EmptyStr} =>
                  training_examples[i][SPACY_DOCS[a]] =
                      examples_before[i][SPACY_DOCS[a]]
            /\ training_examples[i][SPACY_DOCS[a]] # EmptyDoc
            /\ PyLen(attribute_docs[a][i]) # 0 =>
                  training_examples[i][SPACY_DOCS[a]] = attribute_docs[a][i]
            /\ training_examples[i][a] = examples_before[i][a]

\* A sample with an empty text keeps the Doc of an earlier run while its
\* neighbour gets a new one.
C2_Witness ==
    /\ pc = "trained"
    /\ NumExamples = 2
    /\ examples_before[1]["text"] = EmptyStr
    /\ examples_before[1]["text_spacy_doc"] = StaleDoc
    /\ training_examples[1]["text_spacy_doc"] = StaleDoc
    /\ examples_before[2]["text"] = Str(<<"b">>)
    /\ training_examples[2]["text_spacy_doc"] = Doc(<<"b">>)

\* C9: whatever number k of Docs nlp.pipe returns for m submitted texts,
\* _process_content_bearing_samples raises nothing and returns min(k, m)
\* pairs: the first min(k, m) submitted indices with the first min(k, m) Docs.
C9_ZipTruncates ==
    pc = "trained" =>
        \A a \in Attributes :
            LET m == Len(steps[a].samples_to_pipe)
                k == Len(steps[a].piped)
                pairs == steps[a].content_bearing_docs
            IN  /\ Len(pairs) = Min(k, m)
                /\ \A i \in 1..Min(k, m) :
                      pairs[i] = <<steps[a].samples_to_pipe[i][1], steps[a].piped[i]>>
                /\ train_error = "none"

\* Two texts submitted, one Doc returned.
C9_Witness ==
    /\ pc = "trained"
    /\ Len(steps["text"].samples_to_pipe) = 2
    /\ Len(steps["text"].piped) = 1
    /\ Len(steps["text"].content_bearing_docs) = 1

\* C10: whatever number of Docs nlp.pipe returns, each per-attribute list has
\* one entry per original index 0..n-1, ascending, so that train's lookup
\* attribute_docs[attribute][idx] never leaves the list.
C10_OneEntryPerIndex ==
    pc = "trained" =>
        \A a \in Attributes :
            /\ Len(attribute_docs[a]) = NumExamples
            /\ Len(steps[a].attribute_document_list) = NumExamples
            /\ \A i \in ExampleIndices :
                  steps[a].attribute_document_list[i][1] = i - 1
            /\ train_error = "none"

\* pipe returned fewer Docs than texts and the list still has n entries.
C10_Witness ==
    /\ pc = "trained"
    /\ NumExamples = 2
    /\ Len(steps["text"].samples_to_pipe) = 2
    /\ Len(steps["text"].piped) < 2
    /\ Len(attribute_docs["text"]) = 2
    /\ train_error = "none"

(***************************************************************************)
(* Properties of create, load and cache_key (SpecLifecycle).               *)
(***************************************************************************)
IsConstruction == call.op \in {"create", "load"}
Loaded == IsConstruction /\ call.did.spacy_load_calls # <<>>
Validated == IsConstruction /\ call.did.validated # <<>>

\* The name a configuration resolves to: the configured one when it is
\* non-empty, the language otherwise.
ResolvedName(config, language) ==
    IF "model" \in DOMAIN config /\ config["model"] # None
       /\ config["model"] # Str(<<>>)
    THEN config["model"]
    ELSE language

\* C3: when spacy.load reports that the model is absent or not linked,
\* _load_model (and with it create and load) fails with the model-not-found
\* error, which the source names InvalidModelError, and the message holds the
\* download and link commands.
C3_ModelNotFoundError ==
    (Loaded /\ call.outcome = "OSError") =>
        /\ call.did.error.kind \in {"ModelNotFoundError", "InvalidModelError"}
        /\ HasRemediation(call.did.error)

\* C4 as stated: a null handle and a handle with an unset path fail validation
\* with InvalidModelError, on create and on load.
C4_InvalidModelError ==
    (Validated /\ call.outcome \in {"None", "stub"}) =>
        call.did.error.kind = "InvalidModelError"

\* C4 amended: a null handle and a handle with an unset path fail validation
\* with a plain Exception, on create and on load, and no component is built;
\* a handle with a set path passes and becomes the component's nlp untouched.
C4_ValidationRaisesException ==
    /\ (Loaded /\ call.outcome \in {"None", "stub"}) =>
          /\ Validated
          /\ call.did.error.kind = "Exception"
          /\ call.did.result = None
    /\ (Loaded /\ call.outcome = "loaded") =>
          /\ Validated
          /\ call.did.error = NoError
          /\ call.did.result.nlp = call.did.validated[1]
          /\ call.did.result.nlp.path # None

\* load validates a stub handle and raises.
C4_Witness ==
    /\ call.op = "load"
    /\ call.outcome = "stub"
    /\ Validated
    /\ call.did.validated[1].path = None
    /\ call.did.error.kind = "Exception"

\* C5: cache_key returns name + "-" + (model or language) for every
\* configuration, the language standing in for a model that is missing, None
\* or empty, and never fails.
C5_CacheKeyFallsBack ==
    call.op = "cache_key" =>
        /\ call.did.error = NoError
        /\ call.did.result =
              Str(ComponentName \o <<"-">>
                  \o ResolvedName(call.config, call.language).chars)

\* C6: load with a cached component returns that component and neither loads
\* nor validates; spacy.load runs only in a load without a cached component.
C6_CachedLoadSkipsLoader ==
    call.op = "load" =>
        /\ call.cached_component # None =>
              /\ call.did.result = call.cached_component
              /\ call.did.error = NoError
              /\ call.did.spacy_load_calls = <<>>
              /\ call.did.validated = <<>>
        /\ call.did.spacy_load_calls # <<>> => call.cached_component = None

\* A load that was handed the component cached under its key.
C6_Witness ==
    /\ call.op = "load"
    /\ call.cached_component # None
    /\ call.did.result = call.cached_component
    /\ call.did.spacy_load_calls = <<>>

\* C7: a create or load without a cached component calls spacy.load exactly
\* once, with the resolved name; when the load or the validation fails the
\* exception reaches the caller, no component is returned and nothing is
\* loaded a second time.
C7_NoRetryNoFallback ==
    (IsConstruction /\ call.cached_component = None) =>
        /\ Len(call.did.spacy_load_calls) = 1
        /\ call.did.spacy_load_calls[1] = ResolvedName(call.config, call.language)
        /\ Len(call.did.validated) <= 1
        /\ call.outcome # "loaded" =>
              /\ call.did.error # NoError
              /\ call.did.result = None
        /\ call.outcome = "loaded" =>
              /\ call.did.error = NoError
              /\ call.did.result # None

\* create of a named model that is not linked raises after one load.
C7_Witness ==
    /\ call.op = "create"
    /\ call.outcome = "OSError"
    /\ call.config = [model |-> Str(<<"en_core_web_md">>)]
    /\ call.did.error # NoError
    /\ call.did.result = None
    /\ call.did.spacy_load_calls = <<Str(<<"en_core_web_md">>)>>

\* C8: create hands spacy.load the configured name when it is non-empty and
\* the language otherwise, and stores that name in the component's
\* configuration; a load of a configuration create produced hands spacy.load
\* the same name.
C8_ResolvedNameIsLoaded ==
    /\ call.op = "create" =>
          /\ call.did.spacy_load_calls = <<ResolvedName(call.given, call.language)>>
          /\ call.did.error = NoError =>
                call.did.result.component_config =
                    [override_defaults(defaults, call.given) EXCEPT
                        !["model"] = ResolvedName(call.given, call.language)]
    /\ (call.op = "load" /\ call.cached_component = None) =>
          call.did.spacy_load_calls = <<ResolvedName(call.given, call.language)>>

\* A load of a configuration that create made of a configuration without a
\* model name: the language's model is loaded.
C8_Witness ==
    /\ call.op = "load"
    /\ call.cached_component = None
    /\ call.given = [model |-> Str(<<>>)]
    /\ call.language = Str(<<"de">>)
    /\ call.did.spacy_load_calls = <<Str(<<"de">>)>>
====
